---- MODULE Spec2Model ----
(***************************************************************************)
(* A model of the reverse polish calculator "clac".                        *)
(*                                                                         *)
(*   calc.rs    the Integer/Float engine (Calculator, apply_mut, apply)    *)
(*   types.rs   Value and its lossy conversions                            *)
(*   rpcalc.rs  the generic engine Calculator<T: Number>                   *)
(*   traits.rs  the Number implementation for i64                          *)
(*   main.rs    the interactive loop over rpcalc::Calculator<i64>          *)
(*                                                                         *)
(* TLC computes with 32 bit integers, so the machine widths are scaled:    *)
(* i64 is a two's complement integer of IntBits bits, u32 an unsigned      *)
(* integer of U32Bits bits and f64 a binary floating point number with     *)
(* FMantBits bits of precision, round to nearest even, signed zeros,       *)
(* subnormals, infinities and one NaN.  The orderings of the real widths   *)
(* are kept: FMantBits < IntBits (53 < 64), IntBits - 1 < 2^U32Bits - 1 <  *)
(* MaxInt (63 < u32::MAX < i64::MAX) and MaxInt < the largest float.       *)
(***************************************************************************)
EXTENDS Integers, Sequences, FiniteSets, TLC

\* ------------------------------------------------------------------------
\* Bounds of the model
\* ------------------------------------------------------------------------
IntBits == 8        \* width of the model's i64
U32Bits == 6        \* width of the model's u32
FMantBits == 5      \* precision of the model's f64
FExpMax == 10       \* finite floats are below 2^(FExpMax + 1)
FSubBits == 6       \* the smallest subnormal is 2^(-FSubBits)
MaxSteps == 5       \* calls made on one calculator
MaxStack == 3       \* entries a push may find on the stack
MaxLines == 2       \* lines read from standard input
MaxInputLen == 5    \* characters of a line handed to parse
MaxLineLen == 3     \* tokens on one line

\* ------------------------------------------------------------------------
\* i64 (types.rs:12, the payload of Value::Integer)
\* ------------------------------------------------------------------------
MinInt == -(2^(IntBits - 1))
MaxInt == 2^(IntBits - 1) - 1
I64 == MinInt..MaxInt
U32Max == 2^U32Bits - 1

None == [some |-> FALSE, v |-> 0]
Some(x) == [some |-> TRUE, v |-> x]

Abs(n) == IF n < 0 THEN -n ELSE n

\* Rust's integer division truncates toward zero; TLA+'s \div floors.
TruncDiv(a, b) ==
    IF (a < 0) = (b < 0) THEN Abs(a) \div Abs(b) ELSE -(Abs(a) \div Abs(b))

InRange(n) == IF n \in I64 THEN Some(n) ELSE None

i64_checked_add(a, b) == InRange(a + b)
i64_checked_sub(a, b) == InRange(a - b)
i64_checked_mul(a, b) == InRange(a * b)
i64_checked_div(a, b) == IF b = 0 THEN None ELSE InRange(TruncDiv(a, b))

\* two's complement: the bit pattern of a as an unsigned number and back
ToBits(a) == a % (2^IntBits)
FromBits(u) == IF u >= 2^(IntBits - 1) THEN u - 2^IntBits ELSE u

RECURSIVE BitwiseU(_, _, _, _)
BitwiseU(f, x, y, n) ==
    IF n = 0 THEN 0
    ELSE 2 * BitwiseU(f, x \div 2, y \div 2, n - 1) + f[x % 2][y % 2]

AndBit == [p \in 0..1 |-> [q \in 0..1 |-> IF p = 1 /\ q = 1 THEN 1 ELSE 0]]
OrBit  == [p \in 0..1 |-> [q \in 0..1 |-> IF p = 1 \/ q = 1 THEN 1 ELSE 0]]
XorBit == [p \in 0..1 |-> [q \in 0..1 |-> IF p # q THEN 1 ELSE 0]]

i64_bitand(a, b) == FromBits(BitwiseU(AndBit, ToBits(a), ToBits(b), IntBits))
i64_bitor(a, b)  == FromBits(BitwiseU(OrBit, ToBits(a), ToBits(b), IntBits))
i64_bitxor(a, b) == FromBits(BitwiseU(XorBit, ToBits(a), ToBits(b), IntBits))
\* the arithmetic negation in the place of the complement
i64_not_negating(a) == IF a = MinInt THEN a ELSE -a

i64_not(a) == -a - 1

\* i64 -> u32 by TryInto (calc.rs:218, calc.rs:252)
try_into_u32(b) == IF b >= 0 /\ b <= U32Max THEN Some(b) ELSE None

\* checked_shl that lets a shift by the full width through
i64_checked_shl_off_by_one(a, n) ==
    IF n > IntBits THEN None ELSE Some(FromBits((ToBits(a) * 2^n) % (2^IntBits)))

\* checked_shl / checked_shr: None when the shift amount reaches the width,
\* otherwise the bits shifted out are dropped (shl) or the sign is kept (shr)
i64_checked_shl(a, n) ==
    IF n >= IntBits THEN None ELSE Some(FromBits((ToBits(a) * 2^n) % (2^IntBits)))
i64_checked_shr(a, n) ==
    IF n >= IntBits THEN None ELSE Some(a \div (2^n))

\* ------------------------------------------------------------------------
\* f64 (types.rs:13, the payload of Value::Float)
\* A float is NaN, a signed infinity, a signed zero, or (-1)^neg * m * 2^e
\* with m odd, m < 2^FMantBits and -FSubBits <= e.
\* ------------------------------------------------------------------------
FNaN == [k |-> "nan", neg |-> FALSE, m |-> 0, e |-> 0]
FInf(neg) == [k |-> "inf", neg |-> neg, m |-> 0, e |-> 0]
FZero(neg) == [k |-> "fin", neg |-> neg, m |-> 0, e |-> 0]

Max(a, b) == IF a >= b THEN a ELSE b
Min(a, b) == IF a <= b THEN a ELSE b

\* the largest L with 2^L * den <= num, for num > 0 and den > 0
RECURSIVE Log2Up(_, _, _)
Log2Up(num, den, L) == IF 2 * den <= num THEN Log2Up(num, 2 * den, L + 1) ELSE L
RECURSIVE Log2Down(_, _, _)
Log2Down(num, den, L) == IF num >= den THEN L ELSE Log2Down(2 * num, den, L - 1)
FloorLog2(num, den) ==
    IF num >= den THEN Log2Up(num, den, 0) ELSE Log2Down(num, den, 0)

\* m * 2^e with the trailing zero bits of m moved into the exponent
RECURSIVE FCanon(_, _, _)
FCanon(neg, m, e) ==
    IF m % 2 = 0 THEN FCanon(neg, m \div 2, e + 1)
    ELSE [k |-> "fin", neg |-> neg, m |-> m, e |-> e]

\* The float nearest to (-1)^neg * (num / den) * 2^E, ties to even, for
\* num >= 0 and den > 0: IEEE 754 rounding of an exact result.
FRound(neg, num, den, E) ==
    IF num = 0 THEN FZero(neg)
    ELSE LET L == FloorLog2(num, den) + E
             q == Max(L - (FMantBits - 1), -FSubBits)
             s == E - q
             N == IF s >= 0 THEN num * 2^s ELSE num
             D == IF s >= 0 THEN den ELSE den * 2^(-s)
             m0 == N \div D
             r == N % D
             m == IF 2 * r > D \/ (2 * r = D /\ m0 % 2 = 1) THEN m0 + 1 ELSE m0
         IN  IF m = 0 THEN FZero(neg)
             ELSE IF FloorLog2(m, 1) + q > FExpMax THEN FInf(neg)
             ELSE FCanon(neg, m, q)

FNeg(x) == IF x.k = "nan" THEN x ELSE [x EXCEPT !.neg = ~x.neg]
FIsZero(x) == x.k = "fin" /\ x.m = 0
FSigned(x, E) == (IF x.neg THEN -1 ELSE 1) * x.m * 2^(x.e - E)

\* a + b on f64 (calc.rs:188)
f64_add(x, y) ==
    IF x.k = "nan" \/ y.k = "nan" THEN FNaN
    ELSE IF x.k = "inf" /\ y.k = "inf" THEN (IF x.neg = y.neg THEN x ELSE FNaN)
    ELSE IF x.k = "inf" THEN x
    ELSE IF y.k = "inf" THEN y
    ELSE IF FIsZero(x) /\ FIsZero(y) THEN FZero(x.neg /\ y.neg)
    ELSE LET E == Min(x.e, y.e)
             sum == FSigned(x, E) + FSigned(y, E)
         IN  IF sum = 0 THEN FZero(FALSE) ELSE FRound(sum < 0, Abs(sum), 1, E)

\* a - b on f64 (calc.rs:245)
f64_sub(x, y) == f64_add(x, FNeg(y))

\* a * b on f64 (calc.rs:232)
f64_mul(x, y) ==
    IF x.k = "nan" \/ y.k = "nan" THEN FNaN
    ELSE IF (x.k = "inf" /\ FIsZero(y)) \/ (FIsZero(x) /\ y.k = "inf") THEN FNaN
    ELSE IF x.k = "inf" \/ y.k = "inf" THEN FInf(x.neg # y.neg)
    ELSE FRound(x.neg # y.neg, x.m * y.m, 1, x.e + y.e)

\* a / b on f64 (calc.rs:211)
f64_div(x, y) ==
    IF x.k = "nan" \/ y.k = "nan" THEN FNaN
    ELSE IF x.k = "inf" /\ y.k = "inf" THEN FNaN
    ELSE IF FIsZero(x) /\ FIsZero(y) THEN FNaN
    ELSE IF x.k = "inf" \/ FIsZero(y) THEN FInf(x.neg # y.neg)
    ELSE IF y.k = "inf" THEN FZero(x.neg # y.neg)
    ELSE FRound(x.neg # y.neg, x.m, y.m, x.e - y.e)

\* i as f64 (types.rs:47): the nearest float
i64_as_f64(i) == FRound(i < 0, Abs(i), 1, 0)

\* f as i64 (types.rs:37): truncates toward zero, saturates, NaN gives 0
f64_as_i64(x) ==
    IF x.k = "nan" THEN 0
    ELSE IF x.k = "inf" THEN (IF x.neg THEN MinInt ELSE MaxInt)
    ELSE LET mag == IF x.e >= 0 THEN x.m * 2^(x.e) ELSE x.m \div 2^(-x.e)
             n == IF x.neg THEN -mag ELSE mag
         IN  Max(MinInt, Min(MaxInt, n))

\* the float of the dyadic number n / 2^d (a float literal)
FLit(n, d) == FRound(n < 0, Abs(n), 2^d, 0)

\* ------------------------------------------------------------------------
\* Value (types.rs:8-61)
\* ------------------------------------------------------------------------
Integer(i) == [tag |-> "Integer", i |-> i]
Float(f) == [tag |-> "Float", f |-> f]

is_float(v) == v.tag = "Float"
is_integer(v) == v.tag = "Integer"

\* impl From<Value> for i64
into_i64(v) == IF v.tag = "Integer" THEN v.i ELSE f64_as_i64(v.f)
\* impl From<Value> for f64
into_f64(v) == IF v.tag = "Integer" THEN i64_as_f64(v.i) ELSE v.f

\* ------------------------------------------------------------------------
\* The Integer/Float engine (calc.rs)
\* A calculator is [value_stack, output_radix]; a call that can fail yields
\* its error kind ("Ok" when it succeeded) next to the calculator it leaves.
\* ------------------------------------------------------------------------
Radix == {"Dec", "Hex", "Bin"}
CalculatorError == {"StackUnderflow", "InvalidOperation"}

NoValue == [tag |-> "None"]
Ok(v) == [err |-> "Ok", v |-> v]
Err(e) == [err |-> e, v |-> NoValue]

\* Calculator::new
new == [value_stack |-> <<>>, output_radix |-> "Dec"]

\* pop_mut that answers an empty stack with a zero instead of an error
pop_mut_defaulting(self) ==
    IF Len(self.value_stack) = 0
    THEN [err |-> "Ok", v |-> Integer(0), calc |-> self]
    ELSE [err |-> "Ok", v |-> self.value_stack[Len(self.value_stack)],
          calc |-> [self EXCEPT !.value_stack = SubSeq(@, 1, Len(@) - 1)]]

\* pop_mut that returns the top entry and leaves it on the stack
pop_mut_peeking(self) ==
    IF Len(self.value_stack) = 0
    THEN [err |-> "StackUnderflow", v |-> NoValue, calc |-> self]
    ELSE [err |-> "Ok", v |-> self.value_stack[Len(self.value_stack)], calc |-> self]

\* Calculator::pop_mut
pop_mut(self) ==
    IF Len(self.value_stack) = 0
    THEN [err |-> "StackUnderflow", v |-> NoValue, calc |-> self]
    ELSE [err |-> "Ok", v |-> self.value_stack[Len(self.value_stack)],
          calc |-> [self EXCEPT !.value_stack = SubSeq(@, 1, Len(@) - 1)]]

\* Calculator::push_mut
push_mut(self, v) == [self EXCEPT !.value_stack = Append(@, v)]

\* set_radix that also stores every value as an Integer
set_radix_converting(self, radix) ==
    [value_stack |-> [k \in 1..Len(self.value_stack) |->
                         Integer(into_i64(self.value_stack[k]))],
     output_radix |-> radix]

\* Calculator::set_radix
set_radix(self, radix) == [self EXCEPT !.output_radix = radix]

\* the closures of impl From<Operation> for Box<dyn OpImpl>
ok_or(opt) == IF opt.some THEN Ok(Integer(opt.v)) ELSE Err("InvalidOperation")

add_int(a, b) == ok_or(i64_checked_add(a, b))
add_float(a, b) == Ok(Float(f64_add(a, b)))
sub_int(a, b) == ok_or(i64_checked_sub(a, b))
sub_float(a, b) == Ok(Float(f64_sub(a, b)))
mul_int(a, b) == ok_or(i64_checked_mul(a, b))
mul_float(a, b) == Ok(Float(f64_mul(a, b)))
div_int(a, b) == ok_or(i64_checked_div(a, b))
\* the float closure of Divide with the zero check of the integer closure
div_float_checked(a, b) ==
    IF FIsZero(b) THEN Err("InvalidOperation") ELSE Ok(Float(f64_div(a, b)))
div_float(a, b) == Ok(Float(f64_div(a, b)))
and_int(a, b) == Ok(Integer(i64_bitand(a, b)))
or_int(a, b) == Ok(Integer(i64_bitor(a, b)))
xor_int(a, b) == Ok(Integer(i64_bitxor(a, b)))
shl_int(a, b) ==
    LET n == try_into_u32(b)
    IN  IF ~n.some THEN Err("InvalidOperation") ELSE ok_or(i64_checked_shl(a, n.v))
shr_int(a, b) ==
    LET n == try_into_u32(b)
    IN  IF ~n.some THEN Err("InvalidOperation") ELSE ok_or(i64_checked_shr(a, n.v))

FloatPromoOps == {"Add", "Subtract", "Multiply", "Divide"}
BitOps == {"BitAnd", "BitOr", "BitXor"}
ShiftOps == {"LeftShift", "RightShift"}
IntPromoOps == BitOps \cup ShiftOps
TwoParamOps == FloatPromoOps \cup IntPromoOps

\* A TwoParamFloatPromoOpImpl or TwoParamIntPromoOpImpl is named by the
\* operation From<Operation> builds it for; these are its boxed closures.
FloatPromo_int_op(self, a, b) ==
    CASE self = "Add" -> add_int(a, b)
      [] self = "Divide" -> div_int(a, b)
      [] self = "Multiply" -> mul_int(a, b)
      [] self = "Subtract" -> sub_int(a, b)
FloatPromo_float_op(self, a, b) ==
    CASE self = "Add" -> add_float(a, b)
      [] self = "Divide" -> div_float(a, b)
      [] self = "Multiply" -> mul_float(a, b)
      [] self = "Subtract" -> sub_float(a, b)
IntPromo_int_op(self, a, b) ==
    CASE self = "BitAnd" -> and_int(a, b)
      [] self = "BitOr" -> or_int(a, b)
      [] self = "BitXor" -> xor_int(a, b)
      [] self = "LeftShift" -> shl_int(a, b)
      [] self = "RightShift" -> shr_int(a, b)

\* compute that looks at the right operand only to decide the promotion
FloatPromo_compute_right_only(self, a, b) ==
    IF is_float(b)
    THEN FloatPromo_float_op(self, into_f64(a), into_f64(b))
    ELSE FloatPromo_int_op(self, into_i64(a), into_i64(b))

\* TwoParamFloatPromoOpImpl::compute
FloatPromo_compute(self, a, b) ==
    IF is_float(a) \/ is_float(b)
    THEN FloatPromo_float_op(self, into_f64(a), into_f64(b))
    ELSE FloatPromo_int_op(self, into_i64(a), into_i64(b))

\* compute that refuses a Float operand instead of converting it
IntPromo_compute_rejecting(self, a, b) ==
    IF is_float(a) \/ is_float(b) THEN Err("InvalidOperation")
    ELSE IntPromo_int_op(self, into_i64(a), into_i64(b))

\* TwoParamIntPromoOpImpl::compute
IntPromo_compute(self, a, b) == IntPromo_int_op(self, into_i64(a), into_i64(b))

\* TwoParamOpImpl::compute of the implementation built for a two operand
\* operation
compute(op, a, b) ==
    IF op \in FloatPromoOps THEN FloatPromo_compute(op, a, b)
    ELSE IntPromo_compute(op, a, b)

\* execute with the operands handed to compute in the order they were popped
TwoParam_execute_swapped(op, calc) ==
    LET pb == pop_mut(calc)
    IN  IF pb.err # "Ok" THEN [err |-> pb.err, calc |-> pb.calc]
        ELSE LET pa == pop_mut(pb.calc)
             IN  IF pa.err # "Ok" THEN [err |-> pa.err, calc |-> pa.calc]
                 ELSE LET r == compute(op, pb.v, pa.v)
                      IN  IF r.err # "Ok" THEN [err |-> r.err, calc |-> pa.calc]
                          ELSE [err |-> "Ok", calc |-> push_mut(pa.calc, r.v)]

\* execute that puts the operands back when compute fails
TwoParam_execute_restoring(op, calc) ==
    LET pb == pop_mut(calc)
    IN  IF pb.err # "Ok" THEN [err |-> pb.err, calc |-> pb.calc]
        ELSE LET pa == pop_mut(pb.calc)
             IN  IF pa.err # "Ok" THEN [err |-> pa.err, calc |-> pa.calc]
                 ELSE LET r == compute(op, pa.v, pb.v)
                      IN  IF r.err # "Ok" THEN [err |-> r.err, calc |-> calc]
                          ELSE [err |-> "Ok", calc |-> push_mut(pa.calc, r.v)]

\* impl<T: TwoParamOpImpl> OpImpl for T: execute
TwoParam_execute(op, calc) ==
    LET pb == pop_mut(calc)
    IN  IF pb.err # "Ok" THEN [err |-> pb.err, calc |-> pb.calc]
        ELSE LET pa == pop_mut(pb.calc)
             IN  IF pa.err # "Ok" THEN [err |-> pa.err, calc |-> pa.calc]
                 ELSE LET r == compute(op, pa.v, pb.v)
                      IN  IF r.err # "Ok" THEN [err |-> r.err, calc |-> pa.calc]
                          ELSE [err |-> "Ok", calc |-> push_mut(pa.calc, r.v)]

\* execute that pushes the two values back in the order they had
Swap_execute_no_swap(calc) ==
    LET pa == pop_mut(calc)
    IN  IF pa.err # "Ok" THEN [err |-> pa.err, calc |-> pa.calc]
        ELSE LET pb == pop_mut(pa.calc)
             IN  IF pb.err # "Ok" THEN [err |-> pb.err, calc |-> pb.calc]
                 ELSE [err |-> "Ok", calc |-> push_mut(push_mut(pb.calc, pb.v), pa.v)]

\* execute that looks at the length first and touches a short stack not at all
Swap_execute_checking_first(calc) ==
    IF Len(calc.value_stack) < 2 THEN [err |-> "StackUnderflow", calc |-> calc]
    ELSE LET pa == pop_mut(calc)
             pb == pop_mut(pa.calc)
         IN  [err |-> "Ok", calc |-> push_mut(push_mut(pb.calc, pa.v), pb.v)]

\* SwapImpl::execute
Swap_execute(calc) ==
    LET pa == pop_mut(calc)
    IN  IF pa.err # "Ok" THEN [err |-> pa.err, calc |-> pa.calc]
        ELSE LET pb == pop_mut(pa.calc)
             IN  IF pb.err # "Ok" THEN [err |-> pb.err, calc |-> pb.calc]
                 ELSE [err |-> "Ok", calc |-> push_mut(push_mut(pb.calc, pa.v), pb.v)]

\* SetRadixImpl::execute
SetRadix_execute(radix, calc) == [err |-> "Ok", calc |-> set_radix(calc, radix)]

\* PushImpl::execute
Push_execute(value, calc) == [err |-> "Ok", calc |-> push_mut(calc, value)]

\* execute that reads the top entry without taking it off
BitNot_execute_keeping(calc) ==
    LET pa == pop_mut(calc)
    IN  IF pa.err # "Ok" THEN [err |-> pa.err, calc |-> pa.calc]
        ELSE [err |-> "Ok", calc |-> push_mut(calc, Integer(i64_not(into_i64(pa.v))))]

\* BitNotImpl::execute
BitNot_execute(calc) ==
    LET pa == pop_mut(calc)
    IN  IF pa.err # "Ok" THEN [err |-> pa.err, calc |-> pa.calc]
        ELSE [err |-> "Ok", calc |-> push_mut(pa.calc, Integer(i64_not(into_i64(pa.v))))]

\* Operation (the operations calc.rs dispatches on)
Op(name) == [op |-> name]
OpPush(v) == [op |-> "Push", value |-> v]
OpSetRadix(r) == [op |-> "SetRadix", radix |-> r]

\* Calculator::apply_mut
apply_mut(self, op) ==
    CASE op.op = "Push" -> Push_execute(op.value, self)
      [] op.op = "SetRadix" -> SetRadix_execute(op.radix, self)
      [] op.op = "Swap" -> Swap_execute(self)
      [] op.op = "BitNot" -> BitNot_execute(self)
      [] OTHER -> TwoParam_execute(op.op, self)

\* the payload of a Result that is an Err
NoCalc == [value_stack |-> <<>>, output_radix |-> "None"]

\* apply that works on the receiver itself instead of a copy
apply_on_receiver(self, op) ==
    LET r == apply_mut(self, op)
    IN  IF r.err # "Ok" THEN [self |-> r.calc, err |-> r.err, calc |-> NoCalc]
        ELSE [self |-> r.calc, err |-> "Ok", calc |-> r.calc]

\* apply that returns a copy of the receiver instead of the new calculator
apply_returns_self(self, op) ==
    LET new_calc == self
        r == apply_mut(new_calc, op)
    IN  IF r.err # "Ok" THEN [self |-> self, err |-> r.err, calc |-> NoCalc]
        ELSE [self |-> self, err |-> "Ok", calc |-> self]

\* Calculator::apply: the receiver as the call leaves it and the Result
apply(self, op) ==
    LET new_calc == self
        r == apply_mut(new_calc, op)
    IN  IF r.err # "Ok" THEN [self |-> self, err |-> r.err, calc |-> NoCalc]
        ELSE [self |-> self, err |-> "Ok", calc |-> r.calc]

\* Calculator::push: the receiver as the call leaves it and the calculator
\* returned
push(self, v) ==
    LET new_calc == self
    IN  [self |-> self, err |-> "Ok", calc |-> push_mut(new_calc, v)]

\* ------------------------------------------------------------------------
\* The generic engine (rpcalc.rs) at T = i64 (traits.rs)
\* ------------------------------------------------------------------------
\* impl Number for i64
Number_checked_add(self, rhs) == i64_checked_add(self, rhs)
Number_checked_sub(self, rhs) == i64_checked_sub(self, rhs)
Number_checked_mul(self, rhs) == i64_checked_sub(self, rhs)
Number_checked_div(self, rhs) == i64_checked_div(self, rhs)

\* Calculator::<i64>::default
rp_default == [stack |-> <<>>]

\* rpcalc Calculator::pop
rp_pop(self) ==
    IF Len(self.stack) = 0
    THEN [err |-> "StackUnderflow", v |-> 0, calc |-> self]
    ELSE [err |-> "Ok", v |-> self.stack[Len(self.stack)],
          calc |-> [self EXCEPT !.stack = SubSeq(@, 1, Len(@) - 1)]]

\* rpcalc Calculator::push
rp_push(self, v) == [self EXCEPT !.stack = Append(@, v)]

\* rpcalc Operation<i64>
RpValue(v) == [op |-> "Value", value |-> v]
RpOps == {"Add", "Subtract", "Multiply", "Divide"}

\* the closures do_operation hands to do_2param_op, before ok_or(einval)
rp_closure(op, a, b) ==
    CASE op = "Add" -> Number_checked_add(a, b)
      [] op = "Subtract" -> Number_checked_sub(a, b)
      [] op = "Multiply" -> Number_checked_mul(a, b)
      [] op = "Divide" -> Number_checked_div(a, b)

\* rpcalc Calculator::do_2param_op, func being the closure of that operation
do_2param_op(self, func) ==
    LET p1 == rp_pop(self)
    IN  IF p1.err # "Ok" THEN [err |-> p1.err, calc |-> p1.calc]
        ELSE LET p2 == rp_pop(p1.calc)
             IN  IF p2.err # "Ok" THEN [err |-> p2.err, calc |-> p2.calc]
                 ELSE LET new_v == rp_closure(func, p2.v, p1.v)
                      IN  IF ~new_v.some
                          THEN [err |-> "InvalidOperation", calc |-> p2.calc]
                          ELSE [err |-> "Ok", calc |-> rp_push(p2.calc, new_v.v)]

\* rpcalc Calculator::do_operation
do_operation(self, op) ==
    CASE op.op = "Value" -> [err |-> "Ok", calc |-> rp_push(self, op.value)]
      [] op.op = "Add" -> do_2param_op(self, "Add")
      [] op.op = "Subtract" -> do_2param_op(self, "Subtract")
      [] op.op = "Multiply" -> do_2param_op(self, "Multiply")
      [] op.op = "Divide" -> do_2param_op(self, "Divide")

\* ------------------------------------------------------------------------
\* Tokens.  A token is the sequence of its characters; a line is the
\* sequence of tokens that split_whitespace yields for it.
\* ------------------------------------------------------------------------
DigitChars == <<"0", "1", "2", "3", "4", "5", "6", "7", "8", "9">>
IsDigit(c) == \E d \in 1..10 : DigitChars[d] = c
DigitVal(c) == (CHOOSE d \in 1..10 : DigitChars[d] = c) - 1

\* the decimal digits of n >= 0
RECURSIVE Decimal(_)
Decimal(n) ==
    IF n < 10 THEN <<DigitChars[n + 1]>>
    ELSE Append(Decimal(n \div 10), DigitChars[(n % 10) + 1])

\* i64::from_str on the digits after the sign: the value is accumulated
\* with checked arithmetic, downwards for a negative number
RECURSIVE ParseDigits(_, _, _)
ParseDigits(cs, neg, acc) ==
    IF Len(cs) = 0 THEN Some(acc)
    ELSE IF ~IsDigit(Head(cs)) THEN None
    ELSE LET next == IF neg THEN acc * 10 - DigitVal(Head(cs))
                     ELSE acc * 10 + DigitVal(Head(cs))
         IN  IF next \notin I64 THEN None ELSE ParseDigits(Tail(cs), neg, next)

\* str::parse::<i64>: an optional sign, then at least one digit
parse_i64(token) ==
    IF Len(token) = 0 THEN None
    ELSE IF Head(token) \in {"+", "-"}
    THEN (IF Len(token) = 1 THEN None
          ELSE ParseDigits(Tail(token), Head(token) = "-", 0))
    ELSE ParseDigits(token, FALSE, 0)

\* the digits of n >= 0 in base 2 or 16, as {:b} and {:x} write them
HexChars == DigitChars \o <<"a", "b", "c", "d", "e", "f">>

RECURSIVE Digits(_, _)
Digits(n, base) ==
    IF n < base THEN <<HexChars[n + 1]>>
    ELSE Append(Digits(n \div base, base), HexChars[(n % base) + 1])

\* format!("{}", i), format!("{:#x}", i) and format!("{:#b}", i) of an i64:
\* the decimal form is signed, the other two show the two's complement bits
format_i64(i, radix) ==
    CASE radix = "Dec" -> IF i < 0 THEN <<"-">> \o Decimal(-i) ELSE Decimal(i)
      [] radix = "Hex" -> <<"0", "x">> \o Digits(ToBits(i), 16)
      [] radix = "Bin" -> <<"0", "b">> \o Digits(ToBits(i), 2)

\* format!("{}", fl) of an f64, kept as one token that names the number
format_f64(fl) == <<fl>>

\* impl Display for Calculator: the tokens that are joined with spaces
fmt(self) ==
    [k \in 1..Len(self.value_stack) |->
        IF self.value_stack[k].tag = "Integer"
        THEN format_i64(self.value_stack[k].i, self.output_radix)
        ELSE format_f64(self.value_stack[k].f)]

\* impl FromStr for rpcalc Operation<i64>
rp_from_str(s) ==
    CASE s = <<"+">> -> [err |-> "Ok", op |-> [op |-> "Add"]]
      [] s = <<"-">> -> [err |-> "Ok", op |-> [op |-> "Subtract"]]
      [] s = <<"*">> -> [err |-> "Ok", op |-> [op |-> "Multiply"]]
      [] s = <<"/">> -> [err |-> "Ok", op |-> [op |-> "Divide"]]
      [] OTHER -> LET maybe_int == parse_i64(s)
                  IN  IF maybe_int.some
                      THEN [err |-> "Ok", op |-> RpValue(maybe_int.v)]
                      ELSE [err |-> "ParseError", op |-> [op |-> "None"]]

\* ------------------------------------------------------------------------
\* The interactive program (main.rs)
\* ------------------------------------------------------------------------
\* parse_line: every token is converted; collecting into a Result keeps the
\* operations of all tokens or the first failure
RECURSIVE parse_line(_)
parse_line(line) ==
    IF Len(line) = 0 THEN [err |-> "Ok", ops |-> <<>>]
    ELSE LET t == rp_from_str(Head(line))
         IN  IF t.err # "Ok" THEN [err |-> t.err, ops |-> <<>>]
             ELSE LET rest == parse_line(Tail(line))
                  IN  IF rest.err # "Ok" THEN rest
                      ELSE [err |-> "Ok", ops |-> <<t.op>> \o rest.ops]

\* the loop of parse_and_do over the operations of the line; n counts the
\* calls of do_operation it makes
RECURSIVE do_all(_, _)
do_all(new_calc, ops) ==
    IF Len(ops) = 0 THEN [err |-> "Ok", calc |-> new_calc, n |-> 0]
    ELSE LET r == do_operation(new_calc, Head(ops))
         IN  IF r.err # "Ok" THEN [err |-> r.err, calc |-> r.calc, n |-> 1]
             ELSE LET rest == do_all(r.calc, Tail(ops))
                  IN  [rest EXCEPT !.n = @ + 1]

\* parse_and_do that converts each token only when its turn to execute comes
parse_and_do_lazy(calc, line) ==
    LET failed == {k \in 1..Len(line) : rp_from_str(line[k]).err # "Ok"}
        stop == IF failed = {} THEN Len(line) + 1
                ELSE CHOOSE k \in failed : \A j \in failed : k <= j
        r == do_all(calc, [k \in 1..(stop - 1) |-> rp_from_str(line[k]).op])
    IN  IF r.err # "Ok" THEN [err |-> r.err, calc |-> rp_default, n |-> r.n]
        ELSE IF failed # {}
        THEN [err |-> "ParseError", calc |-> rp_default, n |-> r.n]
        ELSE [err |-> "Ok", calc |-> r.calc, n |-> r.n]

\* parse_and_do: the Result it returns and the calls of do_operation it made
parse_and_do(calc, line) ==
    LET new_calc == calc
        parsed == parse_line(line)
    IN  IF parsed.err # "Ok" THEN [err |-> parsed.err, calc |-> rp_default, n |-> 0]
        ELSE LET r == do_all(new_calc, parsed.ops)
             IN  IF r.err # "Ok" THEN [err |-> r.err, calc |-> rp_default, n |-> r.n]
                 ELSE [err |-> "Ok", calc |-> r.calc, n |-> r.n]

\* ------------------------------------------------------------------------
\* parser.rs
\* ------------------------------------------------------------------------
ParseError(token) == [err |-> "ParseError", offending_token |-> token]

\* str::split_whitespace: the maximal runs of characters other than white space
RECURSIVE split_from(_, _)
split_from(cs, word) ==
    IF Len(cs) = 0 THEN (IF Len(word) = 0 THEN <<>> ELSE <<word>>)
    ELSE IF Head(cs) = " "
    THEN (IF Len(word) = 0 THEN <<>> ELSE <<word>>) \o split_from(Tail(cs), <<>>)
    ELSE split_from(Tail(cs), Append(word, Head(cs)))

split_whitespace(cs) == split_from(cs, <<>>)

\* INTEGER_RE "^[0-9]+$" and FLOAT_RE "^[0-9]+\.[0-9]+$"
INTEGER_RE_is_match(token) ==
    /\ Len(token) >= 1
    /\ \A k \in 1..Len(token) : IsDigit(token[k])

FLOAT_RE_is_match(token) ==
    \E dot \in 2..(Len(token) - 1) :
        /\ token[dot] = "."
        /\ \A k \in 1..Len(token) : k # dot => IsDigit(token[k])

\* f64::from_str on digits "." digits: the float nearest to the decimal number
RECURSIVE decimal_digits(_, _)
decimal_digits(cs, acc) ==
    IF Len(cs) = 0 THEN acc
    ELSE IF Head(cs) = "." THEN decimal_digits(Tail(cs), acc)
    ELSE decimal_digits(Tail(cs), acc * 10 + DigitVal(Head(cs)))

f64_from_str(token) ==
    LET dot == CHOOSE k \in 1..Len(token) : token[k] = "."
    IN  FRound(FALSE, decimal_digits(token, 0), 10^(Len(token) - dot), 0)

\* parse_value that keeps the low bits of an integer literal that overflows
parse_value_wrapping(token) ==
    IF INTEGER_RE_is_match(token)
    THEN [err |-> "Ok", v |-> Integer(FromBits(ToBits(decimal_digits(token, 0))))]
    ELSE IF FLOAT_RE_is_match(token)
    THEN [err |-> "Ok", v |-> Float(f64_from_str(token))]
    ELSE ParseError(token)

\* parse_value
parse_value(token) ==
    IF INTEGER_RE_is_match(token)
    THEN (IF parse_i64(token).some
          THEN [err |-> "Ok", v |-> Integer(parse_i64(token).v)]
          ELSE ParseError(token))
    ELSE IF FLOAT_RE_is_match(token)
    THEN [err |-> "Ok", v |-> Float(f64_from_str(token))]
    ELSE ParseError(token)

\* impl FromStr for Operation
from_str(token) ==
    CASE token = <<"+">> -> [err |-> "Ok", op |-> Op("Add")]
      [] token = <<"-">> -> [err |-> "Ok", op |-> Op("Subtract")]
      [] token = <<"*">> -> [err |-> "Ok", op |-> Op("Multiply")]
      [] token = <<"/">> -> [err |-> "Ok", op |-> Op("Divide")]
      [] token = <<"&">> -> [err |-> "Ok", op |-> Op("BitAnd")]
      [] token = <<"|">> -> [err |-> "Ok", op |-> Op("BitOr")]
      [] token = <<"^">> -> [err |-> "Ok", op |-> Op("BitXor")]
      [] token = <<"<", "<">> -> [err |-> "Ok", op |-> Op("LeftShift")]
      [] token = <<">", ">">> -> [err |-> "Ok", op |-> Op("RightShift")]
      [] OTHER -> LET value == parse_value(token)
                  IN  IF value.err = "Ok"
                      THEN [err |-> "Ok", op |-> OpPush(value.v)]
                      ELSE value

\* collect() into Result<Vec<Operation>, ParseError>: stops at the first Err
RECURSIVE collect(_, _)
collect(tokens, ops) ==
    IF Len(tokens) = 0 THEN [err |-> "Ok", ops |-> ops]
    ELSE LET r == from_str(Head(tokens))
         IN  IF r.err = "Ok" THEN collect(Tail(tokens), Append(ops, r.op))
             ELSE r

\* parse that goes through all tokens and reports the last failure
parse_reporting_last(input) ==
    LET tokens == split_whitespace(input)
        failed == {k \in 1..Len(tokens) : from_str(tokens[k]).err # "Ok"}
    IN  IF failed = {} THEN collect(tokens, <<>>)
        ELSE from_str(tokens[CHOOSE k \in failed : \A j \in failed : j <= k])

\* parse
parse(input) == collect(split_whitespace(input), <<>>)

\* ------------------------------------------------------------------------
\* State
\* ------------------------------------------------------------------------
VARIABLES
    executed,       \* main.rs parse_and_do: do_operation calls made for the last line
    parse_in,       \* parser.rs parse: the line handed to parse
    parse_out,      \* parser.rs parse: what the call returned
    value_stack,    \* calc.rs Calculator.value_stack of the calculator used in place
    output_radix,   \* calc.rs Calculator.output_radix of that calculator
    receiver,       \* the calculator apply/push was called on, after the call
    new_calc,       \* the Result of the last apply/push: [err, calc]
    last_call,      \* the method called last
    last_op,        \* the Operation (or Value, for a push) it was given
    last_err,       \* the error kind it returned, "Ok" if none
    last_ret,       \* the Value the last pop_mut returned
    pre,            \* the calculator used in place, before the last call
    steps,          \* calls made so far
    calc,           \* main.rs: calc, an rpcalc Calculator<i64>
    stdin_left,     \* main.rs: lines that standard input still holds
    pc,             \* main.rs: where main is
    line,           \* main.rs: the line read last
    reported,       \* main.rs: what the last line ended in, "Ok" or the error kind
    pre_calc        \* calc before the last line or do_operation

calc_vars == <<value_stack, output_radix, receiver, new_calc, last_call, last_ret, pre>>
main_vars == <<calc, stdin_left, pc, line, reported, pre_calc, executed>>
parse_vars == <<parse_in, parse_out>>
vars == <<executed, parse_in, parse_out, value_stack, output_radix, receiver, new_calc, last_call, last_op,
          last_err, last_ret, pre, steps, calc, stdin_left, pc, line, reported,
          pre_calc>>

self_calc == [value_stack |-> value_stack, output_radix |-> output_radix]

\* the Values and Operations the environment hands to the engine
PushInts == {MinInt, -1, 0, 2, IntBits - 1, IntBits, MaxInt}
PushFloats == {FLit(0, 0), FLit(5, 1), FLit(2^(FExpMax - 1), 0)}
PushVals == {Integer(i) : i \in PushInts} \cup {Float(f) : f \in PushFloats}

\* the Values handed to push_mut: both variants, the special floats included
ConstructibleVals ==
    {Integer(MinInt), Integer(2), Float(FLit(5, 1)),
     Float(FNaN), Float(FInf(TRUE)), Float(FZero(TRUE))}

NoOp == [op |-> "None"]

CalcIdle ==
    /\ value_stack = <<>>
    /\ output_radix = "Dec"
    /\ receiver = new
    /\ new_calc = [err |-> "Ok", calc |-> new]
    /\ last_call = "new"
    /\ last_ret = NoValue
    /\ pre = new

NoParse == [err |-> "None"]

ParseIdle ==
    /\ parse_in = <<>>
    /\ parse_out = NoParse

MainIdle ==
    /\ calc = rp_default
    /\ executed = 0
    /\ stdin_left = 0
    /\ pc = "idle"
    /\ line = <<>>
    /\ reported = "Ok"
    /\ pre_calc = rp_default

\* ------------------------------------------------------------------------
\* Spec: one calculator of calc.rs, used in place
\* ------------------------------------------------------------------------
Init ==
    /\ CalcIdle
    /\ MainIdle
    /\ ParseIdle
    /\ last_op = NoOp
    /\ last_err = "Ok"
    /\ steps = 0

\* calc.apply_mut(op)
ApplyMut(op) ==
    /\ steps < MaxSteps
    /\ LET r == apply_mut(self_calc, op)
       IN  /\ value_stack' = r.calc.value_stack
           /\ output_radix' = r.calc.output_radix
           /\ last_err' = r.err
    /\ last_call' = "apply_mut"
    /\ last_op' = op
    /\ last_ret' = NoValue
    /\ pre' = self_calc
    /\ steps' = steps + 1
    /\ UNCHANGED <<receiver, new_calc>>
    /\ UNCHANGED <<main_vars, parse_vars>>

ApplyMutPush(v) == Len(value_stack) < MaxStack /\ ApplyMut(OpPush(v))
ApplyMutSetRadix(r) == ApplyMut(OpSetRadix(r))
ApplyMutSwap == ApplyMut(Op("Swap"))
ApplyMutBitNot == ApplyMut(Op("BitNot"))
ApplyMutFloatPromo(op) == ApplyMut(Op(op))
ApplyMutIntPromo(op) == ApplyMut(Op(op))

\* calc.pop_mut()
PopMut ==
    /\ steps < MaxSteps
    /\ LET r == pop_mut(self_calc)
       IN  /\ value_stack' = r.calc.value_stack
           /\ output_radix' = r.calc.output_radix
           /\ last_err' = r.err
           /\ last_ret' = r.v
    /\ last_call' = "pop_mut"
    /\ last_op' = NoOp
    /\ pre' = self_calc
    /\ steps' = steps + 1
    /\ UNCHANGED <<receiver, new_calc>>
    /\ UNCHANGED <<main_vars, parse_vars>>

\* calc.push_mut(v)
PushMut(v) ==
    /\ steps < MaxSteps
    /\ Len(value_stack) < MaxStack
    /\ LET r == push_mut(self_calc, v)
       IN  /\ value_stack' = r.value_stack
           /\ output_radix' = r.output_radix
    /\ last_err' = "Ok"
    /\ last_ret' = NoValue
    /\ last_call' = "push_mut"
    /\ last_op' = v
    /\ pre' = self_calc
    /\ steps' = steps + 1
    /\ UNCHANGED <<receiver, new_calc>>
    /\ UNCHANGED <<main_vars, parse_vars>>

Next ==
    \/ \E v \in PushVals : ApplyMutPush(v)
    \/ \E r \in Radix : ApplyMutSetRadix(r)
    \/ ApplyMutSwap
    \/ ApplyMutBitNot
    \/ \E op \in FloatPromoOps : ApplyMutFloatPromo(op)
    \/ \E op \in IntPromoOps : ApplyMutIntPromo(op)
    \/ PopMut
    \/ \E v \in ConstructibleVals : PushMut(v)

Spec == Init /\ [][Next]_vars

\* ------------------------------------------------------------------------
\* SpecModes: the same operations given to a calculator used in place
\* (apply_mut, push_mut) and to a chain of calculators (apply, push), where
\* every call is made on the calculator the previous call returned
\* ------------------------------------------------------------------------
InitModes == Init

ModesApply(op) ==
    /\ steps < MaxSteps
    /\ new_calc.err = "Ok"
    /\ op.op = "Push" => Len(value_stack) < MaxStack
    /\ LET r == apply(new_calc.calc, op)
           m == apply_mut(self_calc, op)
       IN  /\ receiver' = r.self
           /\ new_calc' = [err |-> r.err, calc |-> r.calc]
           /\ value_stack' = m.calc.value_stack
           /\ output_radix' = m.calc.output_radix
           /\ last_err' = m.err
    /\ last_call' = "apply"
    /\ last_op' = op
    /\ last_ret' = NoValue
    /\ pre' = self_calc
    /\ steps' = steps + 1
    /\ UNCHANGED <<main_vars, parse_vars>>

ModesPush(v) ==
    /\ steps < MaxSteps
    /\ new_calc.err = "Ok"
    /\ Len(value_stack) < MaxStack
    /\ LET r == push(new_calc.calc, v)
           m == push_mut(self_calc, v)
       IN  /\ receiver' = r.self
           /\ new_calc' = [err |-> r.err, calc |-> r.calc]
           /\ value_stack' = m.value_stack
           /\ output_radix' = m.output_radix
    /\ last_err' = "Ok"
    /\ last_call' = "push"
    /\ last_op' = v
    /\ last_ret' = NoValue
    /\ pre' = self_calc
    /\ steps' = steps + 1
    /\ UNCHANGED <<main_vars, parse_vars>>

Operations ==
    {OpPush(v) : v \in PushVals} \cup {OpSetRadix(r) : r \in Radix}
        \cup {Op(o) : o \in TwoParamOps \cup {"Swap", "BitNot"}}

NextModes ==
    \/ \E op \in Operations : ModesApply(op)
    \/ \E v \in PushVals : ModesPush(v)

SpecModes == InitModes /\ [][NextModes]_vars

\* ------------------------------------------------------------------------
\* SpecRp: one calculator of rpcalc.rs, driven through do_operation
\* ------------------------------------------------------------------------
RpVals == {MinInt, -1, 0, 2, 3, MaxInt}

InitRp == Init

RpDo(op) ==
    /\ steps < MaxSteps
    /\ LET r == do_operation(calc, op)
       IN  /\ calc' = r.calc
           /\ last_err' = r.err
    /\ last_op' = op
    /\ pre_calc' = calc
    /\ steps' = steps + 1
    /\ UNCHANGED <<stdin_left, pc, line, reported, executed>>
    /\ UNCHANGED <<calc_vars, parse_vars>>

RpDoValue(v) == Len(calc.stack) < MaxStack /\ RpDo(RpValue(v))
RpDoAdd == RpDo(Op("Add"))
RpDoSubtract == RpDo(Op("Subtract"))
RpDoMultiply == RpDo(Op("Multiply"))
RpDoDivide == RpDo(Op("Divide"))

NextRp ==
    \/ \E v \in RpVals : RpDoValue(v)
    \/ RpDoAdd
    \/ RpDoSubtract
    \/ RpDoMultiply
    \/ RpDoDivide

SpecRp == InitRp /\ [][NextRp]_vars

\* ------------------------------------------------------------------------
\* SpecMain: the loop of main over the lines of standard input
\* ------------------------------------------------------------------------
Tokens ==
    {<<"+">>, <<"*">>, <<"/">>, <<"0">>, Decimal(MaxInt), <<"x">>}

RECURSIVE SeqsUpTo(_, _)
SeqsUpTo(S, n) ==
    IF n = 0 THEN {<<>>}
    ELSE LET shorter == SeqsUpTo(S, n - 1)
         IN  shorter \cup {Append(q, x) : q \in shorter, x \in S}

Lines == SeqsUpTo(Tokens, MaxLineLen)

InitMain ==
    /\ CalcIdle
    /\ ParseIdle
    /\ executed = 0
    /\ calc = rp_default
    /\ stdin_left \in 0..MaxLines
    /\ pc = "loop"
    /\ line = <<>>
    /\ reported = "Ok"
    /\ pre_calc = rp_default
    /\ last_op = NoOp
    /\ last_err = "Ok"
    /\ steps = 0

\* the match arm with the line's operations applied to calc itself
MainLine_in_place(l) ==
    /\ pc = "loop"
    /\ stdin_left > 0
    /\ LET parsed == parse_line(l)
           r == IF parsed.err # "Ok" THEN [err |-> parsed.err, calc |-> calc, n |-> 0]
                ELSE do_all(calc, parsed.ops)
       IN  /\ calc' = r.calc
           /\ reported' = r.err
           /\ executed' = r.n
    /\ line' = l
    /\ pre_calc' = calc
    /\ stdin_left' = stdin_left - 1
    /\ UNCHANGED <<pc, last_op, last_err, steps>>
    /\ UNCHANGED <<calc_vars, parse_vars>>

\* the match arm with an Err that ends the program
MainLine_fatal(l) ==
    /\ pc = "loop"
    /\ stdin_left > 0
    /\ LET r == parse_and_do(calc, l)
       IN  /\ calc' = IF r.err = "Ok" THEN r.calc ELSE calc
           /\ reported' = r.err
           /\ executed' = r.n
           /\ pc' = IF r.err = "Ok" THEN "loop" ELSE "failed"
    /\ line' = l
    /\ pre_calc' = calc
    /\ stdin_left' = stdin_left - 1
    /\ UNCHANGED <<last_op, last_err, steps>>
    /\ UNCHANGED <<calc_vars, parse_vars>>

\* lines.next() is Some(Ok(line)): the match arm around parse_and_do
MainLine(l) ==
    /\ pc = "loop"
    /\ stdin_left > 0
    /\ LET r == parse_and_do(calc, l)
       IN  /\ calc' = IF r.err = "Ok" THEN r.calc ELSE calc
           /\ reported' = r.err
           /\ executed' = r.n
    /\ line' = l
    /\ pre_calc' = calc
    /\ stdin_left' = stdin_left - 1
    /\ UNCHANGED <<pc, last_op, last_err, steps>>
    /\ UNCHANGED <<calc_vars, parse_vars>>

\* lines.next() is None: break, and main returns Ok(())
MainEof ==
    /\ pc = "loop"
    /\ stdin_left = 0
    /\ pc' = "done"
    /\ UNCHANGED <<calc, stdin_left, line, reported, pre_calc, executed, last_op, last_err, steps>>
    /\ UNCHANGED <<calc_vars, parse_vars>>

\* flush()? or line? is an Err: main returns it
MainIoError ==
    /\ pc = "loop"
    /\ pc' = "failed"
    /\ UNCHANGED <<calc, stdin_left, line, reported, pre_calc, executed, last_op, last_err, steps>>
    /\ UNCHANGED <<calc_vars, parse_vars>>

NextMain ==
    \/ \E l \in Lines : MainLine(l)
    \/ MainEof
    \/ MainIoError

SpecMain == InitMain /\ [][NextMain]_vars

\* the program keeps running: a loop iteration that can be made is made
SpecMainFair == SpecMain /\ WF_vars(NextMain)

\* ------------------------------------------------------------------------
\* SpecParse: parser.rs parse applied to one line of text
\* ------------------------------------------------------------------------
InputChars ==
    {" ", "+", "<", ".", "x"}
        \cup {Decimal(MaxInt + 1)[k] : k \in 1..Len(Decimal(MaxInt + 1))}

InputLines == SeqsUpTo(InputChars, MaxInputLen)

InitParse ==
    /\ CalcIdle
    /\ MainIdle
    /\ parse_in \in InputLines
    /\ parse_out = NoParse
    /\ last_op = NoOp
    /\ last_err = "Ok"
    /\ steps = 0

\* parse(&line)
Parse ==
    /\ parse_out = NoParse
    /\ parse_out' = parse(parse_in)
    /\ UNCHANGED <<parse_in, last_op, last_err, steps>>
    /\ UNCHANGED <<calc_vars, main_vars>>

NextParse == Parse

SpecParse == InitParse /\ [][NextParse]_vars

\* ------------------------------------------------------------------------
\* Properties
\* ------------------------------------------------------------------------
\* the operands and the rest of the stack the last call found: a below b
PreLen == Len(pre.value_stack)
PreA == pre.value_stack[PreLen - 1]
PreB == pre.value_stack[PreLen]
PreS == SubSeq(pre.value_stack, 1, PreLen - 2)

\* integer arithmetic on the mathematical integers
MathQuot(a, b) ==
    CHOOSE q \in -Abs(a)..Abs(a) :
        LET r == a - q * b
        IN  Abs(r) < Abs(b) /\ (r = 0 \/ ((r < 0) = (a < 0)))
MathInt(op, a, b) ==
    CASE op = "Add" -> a + b
      [] op = "Subtract" -> a - b
      [] op = "Multiply" -> a * b
      [] op = "Divide" -> MathQuot(a, b)
MathDefined(op, a, b) ==
    /\ op = "Divide" => b # 0
    /\ MathInt(op, a, b) \in I64

\* C1: apply_mut of Add, Subtract, Multiply or Divide on S ++ [Integer a,
\* Integer b] succeeds whenever a op b is defined and fits the integer
\* width, and leaves S ++ [Integer(a op b)], a being the left operand.
C1_IntegerArithmetic ==
    (/\ last_call = "apply_mut"
     /\ last_op.op \in FloatPromoOps
     /\ PreLen >= 2
     /\ is_integer(PreA) /\ is_integer(PreB)
     /\ MathDefined(last_op.op, PreA.i, PreB.i))
    => /\ last_err = "Ok"
       /\ value_stack = Append(PreS, Integer(MathInt(last_op.op, PreA.i, PreB.i)))

C1_Witness ==
    /\ last_call = "apply_mut"
    /\ last_op = Op("Subtract")
    /\ pre.value_stack = <<Integer(0), Integer(2), Integer(IntBits - 1)>>
    /\ value_stack = <<Integer(0), Integer(3 - IntBits)>>

\* C2: apply_mut of Add, Subtract, Multiply or Divide on S ++ [Integer a,
\* Integer b] fails with InvalidOperation when a op b overflows or divides
\* by zero, and leaves exactly S.
C2_OverflowConsumesOperands ==
    (/\ last_call = "apply_mut"
     /\ last_op.op \in FloatPromoOps
     /\ PreLen >= 2
     /\ is_integer(PreA) /\ is_integer(PreB)
     /\ ~MathDefined(last_op.op, PreA.i, PreB.i))
    => /\ last_err = "InvalidOperation"
       /\ value_stack = PreS
       /\ output_radix = pre.output_radix

C2_Witness ==
    /\ last_call = "apply_mut"
    /\ last_op = Op("Divide")
    /\ pre.value_stack = <<Integer(2), Integer(MinInt), Integer(-1)>>
    /\ last_err = "InvalidOperation"
    /\ value_stack = <<Integer(2)>>

\* the operands and the rest of the stack the last do_operation found
RpLen == Len(pre_calc.stack)
RpA == pre_calc.stack[RpLen - 1]
RpB == pre_calc.stack[RpLen]
RpS == SubSeq(pre_calc.stack, 1, RpLen - 2)

\* C3: do_operation of Add, Subtract, Multiply or Divide on S ++ [a, b]
\* leaves S ++ [a op b] when the exact sum, difference, product or quotient
\* is defined and fits the integer width, and fails with InvalidOperation
\* exactly when it does not.
C3_GenericEngineChecked ==
    (last_op.op \in RpOps /\ RpLen >= 2)
    => IF MathDefined(last_op.op, RpA, RpB)
       THEN /\ last_err = "Ok"
            /\ calc.stack = Append(RpS, MathInt(last_op.op, RpA, RpB))
       ELSE last_err = "InvalidOperation"

\* the part of C3 that is about Add, Subtract and Divide only
C3_OtherThanMultiply == last_op.op # "Multiply" => C3_GenericEngineChecked

\* the operations of a line, when every token of it converts
LineOps(l) == [i \in 1..Len(l) |-> rp_from_str(l[i]).op]
Tokenizes(l) == \A i \in 1..Len(l) : rp_from_str(l[i]).err = "Ok"

\* do_operation applied to c for each of ops, the leftmost first
RECURSIVE FoldLeft(_, _)
FoldLeft(c, ops) ==
    IF Len(ops) = 0 THEN [err |-> "Ok", calc |-> c]
    ELSE LET before == FoldLeft(c, SubSeq(ops, 1, Len(ops) - 1))
         IN  IF before.err # "Ok" THEN before
             ELSE do_operation(before.calc, ops[Len(ops)])

\* C4: a line is a transaction on calc: when every token converts and every
\* operation succeeds, calc becomes the result of the line's operations
\* applied left to right to the calc before the line; otherwise calc is the
\* calc before the line.
C4_LineIsTransaction ==
    IF Tokenizes(line) /\ FoldLeft(pre_calc, LineOps(line)).err = "Ok"
    THEN reported = "Ok" /\ calc = FoldLeft(pre_calc, LineOps(line)).calc
    ELSE reported # "Ok" /\ calc = pre_calc

C4_Witness ==
    /\ pre_calc.stack = <<MaxInt>>
    /\ line = <<<<"0">>, <<"/">>, <<"+">>>>
    /\ reported = "InvalidOperation"
    /\ calc.stack = <<MaxInt>>

\* C5: the chain of apply/push and the calculator used in place end in the
\* same error kind, and while every call succeeded they hold the same stack
\* and radix.
C5_ModesAgree ==
    /\ new_calc.err = last_err
    /\ last_err = "Ok" => new_calc.calc = self_calc

C5_Witness ==
    /\ last_call = "apply"
    /\ last_op = Op("Divide")
    /\ last_err = "Ok"
    /\ steps = MaxSteps
    /\ output_radix = "Hex"
    /\ new_calc.calc.value_stack = <<Integer(2), Float(FLit(5, 2))>>

\* the float operation of Add, Subtract, Multiply and Divide
FloatOp(op, x, y) ==
    CASE op = "Add" -> f64_add(x, y)
      [] op = "Subtract" -> f64_sub(x, y)
      [] op = "Multiply" -> f64_mul(x, y)
      [] op = "Divide" -> f64_div(x, y)
Widen(v) == IF v.tag = "Float" THEN v.f ELSE i64_as_f64(v.i)

\* C6: when the left or the right operand of Add, Subtract, Multiply or
\* Divide is a Float, the call succeeds and pushes the Float of the float
\* operation on both operands widened; when both are Integer, what is
\* pushed is an Integer.
C6_FloatPromotion ==
    (last_call = "apply_mut" /\ last_op.op \in FloatPromoOps /\ PreLen >= 2)
    => IF PreA.tag = "Float" \/ PreB.tag = "Float"
       THEN /\ last_err = "Ok"
            /\ value_stack =
                 Append(PreS, Float(FloatOp(last_op.op, Widen(PreA), Widen(PreB))))
       ELSE last_err = "Ok" =>
                /\ Len(value_stack) = PreLen - 1
                /\ value_stack[PreLen - 1].tag = "Integer"

C6_Witness ==
    /\ last_call = "apply_mut"
    /\ last_op = Op("Subtract")
    /\ pre.value_stack = <<Integer(0), Float(FLit(5, 1)), Integer(2)>>
    /\ value_stack = <<Integer(0), Float(FLit(1, 1))>>

\* the integer an operand is forced to
ForceInt(v) == IF v.tag = "Integer" THEN v.i ELSE f64_as_i64(v.f)

\* bit k of the two's complement form of x
BitOf(x, k) == (x \div (2^k)) % 2

\* a shifted left by n inside the integer width: the bits of a moved up by
\* n places, those leaving the width dropped
MathShl(a, n) ==
    CHOOSE r \in I64 :
        \A k \in 0..(IntBits - 1) : BitOf(r, k) = IF k >= n THEN BitOf(a, k - n) ELSE 0
\* a shifted right by n: the sign is kept
MathShr(a, n) ==
    CHOOSE r \in I64 :
        \A k \in 0..(IntBits - 1) :
            BitOf(r, k) = IF k + n < IntBits THEN BitOf(a, k + n) ELSE BitOf(a, IntBits - 1)
MathShift(op, a, n) == IF op = "LeftShift" THEN MathShl(a, n) ELSE MathShr(a, n)

\* C7: LeftShift and RightShift on S ++ [a, b] force both operands to
\* integer; for a shift amount within 0..IntBits-1 (0..63 at the real
\* width) they succeed and leave S ++ [Integer(a shifted by b)]; for any
\* other amount they fail with InvalidOperation and leave S.
C7_Shifts ==
    (last_call = "apply_mut" /\ last_op.op \in ShiftOps /\ PreLen >= 2)
    => IF ForceInt(PreB) \in 0..(IntBits - 1)
       THEN /\ last_err = "Ok"
            /\ value_stack =
                 Append(PreS, Integer(MathShift(last_op.op, ForceInt(PreA), ForceInt(PreB))))
       ELSE /\ last_err = "InvalidOperation"
            /\ value_stack = PreS

C7_Witness ==
    /\ last_call = "apply_mut"
    /\ last_op = Op("LeftShift")
    /\ pre.value_stack = <<Integer(2), Float(FLit(2^(FExpMax - 1), 0)), Integer(IntBits - 1)>>
    /\ value_stack = <<Integer(2), Integer(MinInt)>>

\* C8: Swap on a stack with at least two entries succeeds, exchanges the
\* top two entries and leaves the entries below and the radix alone; a Swap
\* that follows a successful Swap restores the stack the first one found.
C8_SwapInvolution ==
    [][(/\ last_call' = "apply_mut"
        /\ last_op' = Op("Swap")
        /\ Len(value_stack) >= 2)
       => LET n == Len(value_stack)
          IN  /\ last_err' = "Ok"
              /\ Len(value_stack') = n
              /\ value_stack'[n] = value_stack[n - 1]
              /\ value_stack'[n - 1] = value_stack[n]
              /\ \A i \in 1..(n - 2) : value_stack'[i] = value_stack[i]
              /\ output_radix' = output_radix
              /\ (last_call = "apply_mut" /\ last_op = Op("Swap") /\ last_err = "Ok")
                    => value_stack' = pre.value_stack]_vars

C8_Witness ==
    /\ last_call = "apply_mut"
    /\ last_op = Op("Swap")
    /\ last_err = "Ok"
    /\ steps = MaxSteps
    /\ pre.value_stack = <<Integer(0), Float(FLit(5, 1)), Integer(2)>>
    /\ value_stack = <<Integer(0), Integer(2), Float(FLit(5, 1))>>

\* C9: pop_mut on an empty stack fails with StackUnderflow and leaves the
\* calculator (stack and radix) as it was; on a non-empty stack it succeeds,
\* returns the top entry and removes exactly that entry.
C9_Pop ==
    last_call = "pop_mut"
    => IF PreLen = 0
       THEN /\ last_err = "StackUnderflow"
            /\ value_stack = <<>>
            /\ output_radix = pre.output_radix
       ELSE /\ last_err = "Ok"
            /\ last_ret = pre.value_stack[PreLen]
            /\ Append(value_stack, last_ret) = pre.value_stack
            /\ output_radix = pre.output_radix

C9_Witness ==
    /\ last_call = "pop_mut"
    /\ last_err = "StackUnderflow"
    /\ steps >= 3
    /\ value_stack = <<>>
    /\ output_radix = "Hex"

\* the bits of a and b combined place by place
MathBits(f, a, b) ==
    CHOOSE r \in I64 :
        \A k \in 0..(IntBits - 1) : BitOf(r, k) = f[BitOf(a, k)][BitOf(b, k)]
MathBitOp(op, a, b) ==
    CASE op = "BitAnd" -> MathBits(AndBit, a, b)
      [] op = "BitOr" -> MathBits(OrBit, a, b)
      [] op = "BitXor" -> MathBits(XorBit, a, b)

\* C10: BitAnd, BitOr and BitXor on a stack with at least two entries
\* succeed whatever the operands are, force both to integer and leave
\* S ++ [Integer(int(a) op int(b))].
C10_BitOpsNeverFail ==
    (last_call = "apply_mut" /\ last_op.op \in BitOps /\ PreLen >= 2)
    => /\ last_err = "Ok"
       /\ value_stack =
            Append(PreS, Integer(MathBitOp(last_op.op, ForceInt(PreA), ForceInt(PreB))))

C10_Witness ==
    /\ last_call = "apply_mut"
    /\ last_op = Op("BitXor")
    /\ pre.value_stack = <<Integer(0), Float(FLit(5, 1)), Integer(-1)>>
    /\ value_stack = <<Integer(0), Integer(-3)>>

\* the bits of a, each inverted
MathNot(a) ==
    CHOOSE r \in I64 : \A k \in 0..(IntBits - 1) : BitOf(r, k) = 1 - BitOf(a, k)

\* C11: BitNot on a non-empty stack succeeds, replaces the top entry by the
\* Integer that is the bitwise complement of the top forced to integer and
\* leaves the entries below and the radix alone; a BitNot that follows a
\* successful BitNot on an Integer restores the stack the first one found.
C11_BitNotInvolution ==
    [][(/\ last_call' = "apply_mut"
        /\ last_op' = Op("BitNot")
        /\ Len(value_stack) >= 1)
       => LET n == Len(value_stack)
          IN  /\ last_err' = "Ok"
              /\ Len(value_stack') = n
              /\ value_stack'[n] = Integer(MathNot(ForceInt(value_stack[n])))
              /\ \A i \in 1..(n - 1) : value_stack'[i] = value_stack[i]
              /\ output_radix' = output_radix
              /\ (/\ last_call = "apply_mut" /\ last_op = Op("BitNot")
                  /\ last_err = "Ok"
                  /\ pre.value_stack[n].tag = "Integer")
                    => value_stack' = pre.value_stack]_vars

C11_Witness ==
    /\ last_call = "apply_mut"
    /\ last_op = Op("BitNot")
    /\ last_err = "Ok"
    /\ pre.value_stack = <<Float(FLit(5, 1)), Integer(MaxInt)>>
    /\ value_stack = <<Float(FLit(5, 1)), Integer(MinInt)>>

\* C12: a push (push_mut, or apply_mut of Push) always succeeds and appends
\* exactly the Value it was given; a pop_mut right after it succeeds,
\* returns that Value unchanged and leaves the calculator as it was before
\* the push.
C12_PushPopRoundTrip ==
    [][/\ last_call' = "push_mut"
            => /\ last_err' = "Ok"
               /\ value_stack' = Append(value_stack, last_op')
               /\ output_radix' = output_radix
       /\ (last_call' = "apply_mut" /\ last_op'.op = "Push")
            => /\ last_err' = "Ok"
               /\ value_stack' = Append(value_stack, last_op'.value)
               /\ output_radix' = output_radix
       /\ (last_call' = "pop_mut" /\ last_call = "push_mut")
            => /\ last_err' = "Ok"
               /\ last_ret' = last_op
               /\ value_stack' = pre.value_stack
               /\ output_radix' = pre.output_radix
       /\ (last_call' = "pop_mut" /\ last_call = "apply_mut" /\ last_op.op = "Push")
            => /\ last_err' = "Ok"
               /\ last_ret' = last_op.value
               /\ value_stack' = pre.value_stack
               /\ output_radix' = pre.output_radix]_vars

C12_Witness ==
    /\ last_call = "pop_mut"
    /\ last_err = "Ok"
    /\ last_ret = Float(FNaN)
    /\ pre.value_stack = <<Integer(MinInt), Float(FNaN)>>
    /\ value_stack = <<Integer(MinInt)>>
    /\ steps = 3

\* the number a digit string denotes in a base, most significant digit first
RECURSIVE DigitsVal(_, _)
DigitsVal(cs, base) ==
    IF Len(cs) = 0 THEN 0
    ELSE DigitsVal(SubSeq(cs, 1, Len(cs) - 1), base) * base
            + (CHOOSE d \in 0..15 : HexChars[d + 1] = cs[Len(cs)])

\* the text shows the Integer i in the radix: prefixed two's complement bits
\* for Hex and Bin, the signed decimal number for Dec
Shows(text, i, radix) ==
    CASE radix = "Hex" -> /\ Len(text) > 2
                          /\ SubSeq(text, 1, 2) = <<"0", "x">>
                          /\ DigitsVal(SubSeq(text, 3, Len(text)), 16)
                                = (i + 2^IntBits) % 2^IntBits
      [] radix = "Bin" -> /\ Len(text) > 2
                          /\ SubSeq(text, 1, 2) = <<"0", "b">>
                          /\ DigitsVal(SubSeq(text, 3, Len(text)), 2)
                                = (i + 2^IntBits) % 2^IntBits
      [] radix = "Dec" -> parse_i64(text) = Some(i)

AfterStep == [value_stack |-> value_stack', output_radix |-> output_radix']

\* C13: SetRadix always succeeds, leaves the stack as it is, sets the radix
\* it names and changes the result of no later operation or pop; no other
\* call changes the radix; Integers are displayed in the current radix, and
\* SetRadix(Dec) right after SetRadix(Hex) shows them in decimal again with
\* the stored values untouched.
C13_SetRadixFrame ==
    [][/\ (last_call' = "apply_mut" /\ last_op'.op = "SetRadix")
            => /\ last_err' = "Ok"
               /\ value_stack' = value_stack
               /\ output_radix' = last_op'.radix
               /\ \A op \in IF output_radix' = output_radix THEN {} ELSE Operations :
                    apply_mut(AfterStep, op) =
                        IF op.op = "SetRadix" THEN apply_mut(self_calc, op)
                        ELSE [apply_mut(self_calc, op)
                                EXCEPT !.calc.output_radix = last_op'.radix]
               /\ pop_mut(AfterStep) =
                    [pop_mut(self_calc) EXCEPT !.calc.output_radix = last_op'.radix]
               /\ \A k \in 1..Len(value_stack) :
                    value_stack[k].tag = "Integer"
                        => Shows(fmt(AfterStep)[k], value_stack[k].i, last_op'.radix)
       /\ (last_call' \in {"apply_mut", "push_mut", "pop_mut"}
           /\ ~(last_call' = "apply_mut" /\ last_op'.op = "SetRadix"))
            => output_radix' = output_radix
       /\ (/\ last_call = "apply_mut" /\ last_op = OpSetRadix("Hex")
           /\ last_call' = "apply_mut" /\ last_op' = OpSetRadix("Dec"))
            => /\ value_stack' = pre.value_stack
               /\ \A k \in 1..Len(value_stack') :
                    value_stack'[k].tag = "Integer"
                        => /\ Shows(fmt(self_calc)[k], pre.value_stack[k].i, "Hex")
                           /\ Shows(fmt(AfterStep)[k], pre.value_stack[k].i, "Dec")
                           /\ Head(fmt(AfterStep)[k]) \in {"-"} \cup
                                {DigitChars[d] : d \in 1..10}]_vars

C13_Witness ==
    /\ last_call = "apply_mut"
    /\ last_op = OpSetRadix("Dec")
    /\ last_err = "Ok"
    /\ steps = 3
    /\ pre.output_radix = "Hex"
    /\ value_stack = <<Integer(-1)>>
    /\ fmt(self_calc) = <<<<"-", "1">>>>
    /\ SubSeq(fmt(pre)[1], 1, 3) = <<"0", "x", "f">>

\* the words of a text: its maximal runs of characters other than the space,
\* from left to right
WordStarts(cs) ==
    {i \in 1..Len(cs) : cs[i] # " " /\ (i = 1 \/ cs[i - 1] = " ")}

WordEnd(cs, i) ==
    CHOOSE j \in i..Len(cs) :
        /\ \A k \in i..j : cs[k] # " "
        /\ (j = Len(cs) \/ cs[j + 1] = " ")

Words(cs) ==
    [n \in 1..Cardinality(WordStarts(cs)) |->
        LET i == CHOOSE s \in WordStarts(cs) :
                    Cardinality({t \in WordStarts(cs) : t <= s}) = n
        IN  SubSeq(cs, i, WordEnd(cs, i))]

OperatorTable ==
    {<<<<"+">>, "Add">>, <<<<"-">>, "Subtract">>, <<<<"*">>, "Multiply">>,
     <<<<"/">>, "Divide">>, <<<<"&">>, "BitAnd">>, <<<<"|">>, "BitOr">>,
     <<<<"^">>, "BitXor">>, <<<<"<", "<">>, "LeftShift">>,
     <<<<">", ">">>, "RightShift">>}

IsOperator(t) == \E p \in OperatorTable : p[1] = t

DecimalDigit(c) == c \in {"0", "1", "2", "3", "4", "5", "6", "7", "8", "9"}

MatchesInteger(t) == Len(t) >= 1 /\ \A k \in 1..Len(t) : DecimalDigit(t[k])

MatchesFloat(t) ==
    \E d \in 1..Len(t) :
        /\ t[d] = "."
        /\ MatchesInteger(SubSeq(t, 1, d - 1))
        /\ MatchesInteger(SubSeq(t, d + 1, Len(t)))

Fits(t) == MatchesInteger(t) /\ DigitsVal(t, 10) <= MaxInt

\* the operation is the one the token stands for
Agrees(op, t) ==
    IF IsOperator(t) THEN \E p \in OperatorTable : p[1] = t /\ op = [op |-> p[2]]
    ELSE /\ op.op = "Push"
         /\ MatchesInteger(t) => op.value = [tag |-> "Integer", i |-> DigitsVal(t, 10)]
         /\ MatchesFloat(t) => op.value.tag = "Float"

\* parse answered as it must when the tokens at the indices in bad are the
\* ones it refuses
ParseAnswers(toks, bad) ==
    IF bad = {}
    THEN /\ parse_out.err = "Ok"
         /\ Len(parse_out.ops) = Len(toks)
         /\ \A k \in 1..Len(toks) : Agrees(parse_out.ops[k], toks[k])
    ELSE LET first == CHOOSE k \in bad : \A j \in bad : k <= j
         IN  parse_out = [err |-> "ParseError", offending_token |-> toks[first]]

\* C14 as stated: parse returns the operations of all tokens in order, or,
\* when some token is neither an operator nor of the form of a numeric
\* literal, fails with the leftmost such token.
C14_ParseByForm ==
    parse_out # NoParse
        => ParseAnswers(Words(parse_in),
                        {k \in 1..Len(Words(parse_in)) :
                            LET t == Words(parse_in)[k]
                            IN  ~(IsOperator(t) \/ MatchesInteger(t) \/ MatchesFloat(t))})

\* C14: parse returns the operations of all tokens in order (none for a line
\* without tokens), or fails with a ParseError carrying the leftmost token
\* that is neither an operator, nor a float literal, nor an integer literal
\* whose value fits the signed integer type.
C14_ParseLeftmostFailure ==
    parse_out # NoParse
        => ParseAnswers(Words(parse_in),
                        {k \in 1..Len(Words(parse_in)) :
                            LET t == Words(parse_in)[k]
                            IN  ~(IsOperator(t) \/ Fits(t) \/ MatchesFloat(t))})

C14_Witness ==
    /\ parse_in = <<"x", " ">> \o Decimal(MaxInt + 1)
    /\ parse_out = [err |-> "ParseError", offending_token |-> <<"x">>]

\* C15: apply (whether it returns a calculator or an error) and push leave
\* the calculator they are called on with the stack and radix it had before
\* the call; the calculator returned is the one that shows the operation.
C15_ReceiverUnchanged ==
    [][(last_call' \in {"apply", "push"})
        => /\ receiver' = new_calc.calc
           /\ last_call' = "push"
                => /\ new_calc'.err = "Ok"
                   /\ new_calc'.calc.value_stack
                        = Append(new_calc.calc.value_stack, last_op')
                   /\ new_calc'.calc.output_radix = new_calc.calc.output_radix
           /\ (last_call' = "apply" /\ new_calc'.err = "Ok")
                => new_calc'.calc = AfterStep]_vars

C15_Witness ==
    /\ last_call = "apply"
    /\ last_op = Op("Divide")
    /\ new_calc.err = "InvalidOperation"
    /\ receiver = [value_stack |-> <<Integer(2), Integer(0)>>, output_radix |-> "Hex"]
    /\ value_stack = <<>>

\* C16: a two-operand operation or Swap applied in place to a stack of fewer
\* than two entries fails with StackUnderflow and leaves the stack empty (the
\* one entry there was is popped and not pushed back); the radix stays.
C16_UnderflowInPlace ==
    (/\ last_call = "apply_mut"
     /\ last_op.op \in TwoParamOps \cup {"Swap"}
     /\ PreLen < 2)
        => /\ last_err = "StackUnderflow"
           /\ value_stack = <<>>
           /\ output_radix = pre.output_radix

C16_Witness ==
    /\ last_call = "apply_mut"
    /\ last_op = Op("Swap")
    /\ last_err = "StackUnderflow"
    /\ pre.value_stack = <<Float(FLit(5, 1))>>
    /\ value_stack = <<>>

\* the decimal number num / den of a float literal, as two naturals
LiteralNum(t) == DigitsVal(SelectSeq(t, DecimalDigit), 10)
LiteralDen(t) == 10^(Len(t) - (CHOOSE d \in 1..Len(t) : t[d] = "."))

\* f is a float at most half a unit in its last place away from num / den
WithinHalfUlp(f, num, den) ==
    IF f.k = "inf" THEN ~f.neg /\ num >= den * 2^FExpMax
    ELSE IF f.k # "fin" \/ f.neg THEN FALSE
    ELSE IF f.m = 0 THEN 2 * num * 2^FSubBits <= den
    ELSE LET norm == CHOOSE s \in 0..(FMantBits - 1) :
                        /\ f.m * 2^s >= 2^(FMantBits - 1)
                        /\ f.m * 2^s < 2^FMantBits
             s == IF f.e - norm < -FSubBits THEN f.e + FSubBits ELSE norm
             M == f.m * 2^s
             E == f.e - s
         IN  IF E >= 1
             THEN /\ (2 * M - 1) * 2^(E - 1) * den <= num
                  /\ num <= (2 * M + 1) * 2^(E - 1) * den
             ELSE /\ (2 * M - 1) * den <= num * 2^(1 - E)
                  /\ num * 2^(1 - E) <= (2 * M + 1) * den

\* parse got as far as the k-th token: every token before it converts
Reached(toks, k) ==
    \A j \in 1..(k - 1) : IsOperator(toks[j]) \/ Fits(toks[j]) \/ MatchesFloat(toks[j])

\* C17 as stated: a token of the form [0-9]+, of any length, becomes
\* Push(Integer(n)) with n its decimal value, a token of the form
\* [0-9]+\.[0-9]+ becomes a Push of a Float, and neither is ever a tokenizing
\* failure.
C17_LiteralsOfAnyLength ==
    parse_out # NoParse
        => \A k \in 1..Len(Words(parse_in)) :
            LET t == Words(parse_in)[k]
            IN  (Reached(Words(parse_in), k) /\ (MatchesInteger(t) \/ MatchesFloat(t)))
                    => /\ parse_out # [err |-> "ParseError", offending_token |-> t]
                       /\ parse_out.err = "Ok"
                            => /\ parse_out.ops[k].op = "Push"
                               /\ MatchesInteger(t)
                                    => parse_out.ops[k].value
                                        = [tag |-> "Integer", i |-> DigitsVal(t, 10)]
                               /\ MatchesFloat(t)
                                    => parse_out.ops[k].value.tag = "Float"

\* C17: a token of the form [0-9]+ whose decimal value n fits the signed
\* integer type becomes Push(Integer(n)); one whose value does not fit is a
\* tokenizing failure that carries the token; a token of the form
\* [0-9]+\.[0-9]+ always becomes Push(Float(f)), f within half a unit in the
\* last place of the decimal number.
C17_LiteralsThatFit ==
    parse_out # NoParse
        => \A k \in 1..Len(Words(parse_in)) :
            LET t == Words(parse_in)[k]
            IN  Reached(Words(parse_in), k)
                    => /\ (Fits(t) \/ MatchesFloat(t))
                            => parse_out # [err |-> "ParseError", offending_token |-> t]
                       /\ (Fits(t) /\ parse_out.err = "Ok")
                            => parse_out.ops[k]
                                = [op |-> "Push",
                                   value |-> [tag |-> "Integer", i |-> DigitsVal(t, 10)]]
                       /\ (MatchesInteger(t) /\ ~Fits(t))
                            => parse_out = [err |-> "ParseError", offending_token |-> t]
                       /\ (MatchesFloat(t) /\ parse_out.err = "Ok")
                            => /\ parse_out.ops[k].op = "Push"
                               /\ parse_out.ops[k].value.tag = "Float"
                               /\ WithinHalfUlp(parse_out.ops[k].value.f,
                                                LiteralNum(t), LiteralDen(t))

C17_Witness ==
    /\ parse_in = <<"+", " ">> \o Decimal(MaxInt + 1)
    /\ parse_out = [err |-> "ParseError", offending_token |-> Decimal(MaxInt + 1)]

\* C18 as stated: the loop stops only at end of input, and then with success.
C18_StopsOnlyAtEndOfInput ==
    pc # "loop" => (pc = "done" /\ stdin_left = 0)

\* C18: a line that ends in an engine failure or a tokenizing failure leaves
\* the loop running with the calculator it had; the program ends with success
\* only at end of input, with every line consumed; and every run ends: with
\* success, or with the I/O error that writing the prompt or reading a line
\* met.
C18_FailuresNotFatal ==
    /\ [][(line' # line \/ stdin_left' # stdin_left)
            => /\ pc' = "loop"
               /\ stdin_left' = stdin_left - 1
               /\ reported' # "Ok" => calc' = calc]_vars
    /\ [](pc = "done" => stdin_left = 0)
    /\ <>(pc \in {"done", "failed"})

C18_Witness ==
    /\ pc = "done"
    /\ stdin_left = 0
    /\ reported = "ParseError"
    /\ line = <<<<"0">>, <<"x">>>>
    /\ calc = pre_calc
    /\ calc.stack = <<MaxInt, 0>>

\* how many entries an operation takes off the stack and how many it puts on
Consumes(op) ==
    CASE op.op = "Push" -> 0
      [] op.op = "SetRadix" -> 0
      [] op.op = "BitNot" -> 1
      [] OTHER -> 2

Produces(op) ==
    CASE op.op = "Push" -> 1
      [] op.op = "SetRadix" -> 0
      [] op.op = "BitNot" -> 1
      [] op.op = "Swap" -> 2
      [] OTHER -> 1

\* C19: a successful operation in place changes the length of the stack by
\* what it produces less what it consumes (Push +1, a two-operand operation
\* -1, Swap, BitNot and SetRadix 0) and leaves every entry below the operands
\* it consumes as it was, value and place.
C19_StackShape ==
    (last_call = "apply_mut" /\ last_err = "Ok")
        => /\ PreLen >= Consumes(last_op)
           /\ Len(value_stack) = PreLen - Consumes(last_op) + Produces(last_op)
           /\ \A k \in 1..(PreLen - Consumes(last_op)) :
                value_stack[k] = pre.value_stack[k]

C19_Witness ==
    /\ last_call = "apply_mut"
    /\ last_op = Op("Multiply")
    /\ last_err = "Ok"
    /\ pre.value_stack = <<Float(FLit(5, 1)), Integer(2), Integer(2)>>
    /\ value_stack = <<Float(FLit(5, 1)), Integer(4)>>

\* C20: the whole line is tokenized before any operation is executed: when a
\* token does not convert, no operation of the line is executed and the
\* error reported is the tokenizing failure, whatever the operations before
\* that token would have done; when all tokens convert, the operations are
\* executed from the left up to and including the first that fails, whose
\* error is the one reported.
C20_TokenizeBeforeExecute ==
    IF ~Tokenizes(line)
    THEN /\ reported = "ParseError"
         /\ executed = 0
         /\ calc = pre_calc
    ELSE LET ops == LineOps(line)
             failing == {k \in 1..Len(ops) :
                            FoldLeft(pre_calc, SubSeq(ops, 1, k)).err # "Ok"}
         IN  IF failing = {}
             THEN reported = "Ok" /\ executed = Len(ops)
             ELSE LET first == CHOOSE k \in failing : \A j \in failing : k <= j
                  IN  /\ reported = FoldLeft(pre_calc, SubSeq(ops, 1, first)).err
                      /\ reported \in {"StackUnderflow", "InvalidOperation"}
                      /\ executed = first

C20_Witness ==
    /\ pre_calc.stack = <<>>
    /\ line = <<<<"+">>, <<"x">>>>
    /\ reported = "ParseError"
    /\ executed = 0
    /\ pc = "loop"

\* a Value that is a zero: the Integer 0 or a Float zero of either sign
IsZeroValue(v) == IF v.tag = "Integer" THEN v.i = 0 ELSE v.f.k = "fin" /\ v.f.m = 0

\* C21: Add, Subtract, Multiply and Divide with a Float among the top two
\* entries always succeed and leave a Float in place of the two, Divide by a
\* zero included (the quotient is then an infinity, or NaN when the dividend
\* is a zero or NaN); these four operations fail with InvalidOperation only
\* when both operands are Integer.
C21_FloatPathNeverFails ==
    (last_call = "apply_mut" /\ last_op.op \in FloatPromoOps /\ PreLen >= 2)
        => /\ (PreA.tag = "Float" \/ PreB.tag = "Float")
                => /\ last_err = "Ok"
                   /\ Len(value_stack) = PreLen - 1
                   /\ value_stack[PreLen - 1].tag = "Float"
                   /\ (last_op.op = "Divide" /\ IsZeroValue(PreB))
                        => /\ value_stack[PreLen - 1].f.k \in {"inf", "nan"}
                           /\ value_stack[PreLen - 1].f.k = "nan"
                                <=> (IsZeroValue(PreA)
                                     \/ (PreA.tag = "Float" /\ PreA.f.k = "nan"))
           /\ last_err # "Ok"
                => /\ last_err = "InvalidOperation"
                   /\ PreA.tag = "Integer"
                   /\ PreB.tag = "Integer"

C21_Witness ==
    /\ last_call = "apply_mut"
    /\ last_op = Op("Divide")
    /\ last_err = "Ok"
    /\ pre.value_stack = <<Integer(2), Float(FZero(FALSE))>>
    /\ value_stack = <<Float(FInf(FALSE))>>

====
